---- MODULE Spec2Model ----
(***************************************************************************)
(* AgentProcessor (packages/bytebot-agent/src/agent/agent.processor.ts):   *)
(* generateWithRetry, extractRetryDelay, sleep and runIteration as a state *)
(* machine.  One "iteration" is one asynchronous invocation (runIteration  *)
(* or a direct generateWithRetry call); its await points are the places    *)
(* where other iterations and the environment may interleave.              *)
(***************************************************************************)
EXTENDS Integers, Sequences, FiniteSets, TLC

(***************************************************************************)
(* Bounds of the model.                                                    *)
(***************************************************************************)
MaxStrLen == 2
MaxTurns == 1
MaxRetriesArg == 6

\* the invocations in flight and the AgentProcessor instances they run on
Iters == {1, 2}
Procs == {1, 2}

(***************************************************************************)
(* Program constants.                                                      *)
(***************************************************************************)
InitialDelay == 5000
MaxDelay == 60000

\* faulty variant of DefaultMaxRetries: one attempt more than the default
DefaultMaxRetriesEleven == 10 + 1

\* maxRetries = 10
DefaultMaxRetries == 10

AGENT_SYSTEM_PROMPT == "AGENT_SYSTEM_PROMPT"
SUMMARIZATION_SYSTEM_PROMPT == "SUMMARIZATION_SYSTEM_PROMPT"
SummaryRequestText == "Respond with a summary of the messages above. Do not include any additional information."
MaxRetriesMessage == "Max retries reached for LLM call"
RetryInfoType == "type.googleapis.com/google.rpc.RetryInfo"
OtherType == "type.googleapis.com/google.rpc.ErrorInfo"

(***************************************************************************)
(* JavaScript values that occur in a provider failure: tagged records with *)
(* the same fields for every tag (n: the number, s: the string as a        *)
(* sequence of one-character strings).                                     *)
(***************************************************************************)
Undef == [t |-> "undefined", n |-> 0, s |-> <<>>]
Null == [t |-> "null", n |-> 0, s |-> <<>>]
Obj == [t |-> "object", n |-> 0, s |-> <<>>]
Num(k) == [t |-> "number", n |-> k, s |-> <<>>]
Str(cs) == [t |-> "string", n |-> 0, s |-> cs]

Digits == {"0", "1", "2", "3", "4", "5", "6", "7", "8", "9"}
WhiteSpace == {" "}
DigitVal(c) == CASE c = "0" -> 0 [] c = "1" -> 1 [] c = "2" -> 2 [] c = "3" -> 3
                 [] c = "4" -> 4 [] c = "5" -> 5 [] c = "6" -> 6 [] c = "7" -> 7
                 [] c = "8" -> 8 [] c = "9" -> 9

\* ToBoolean
Truthy(v) == CASE v.t = "number" -> v.n # 0
               [] v.t = "string" -> v.s # <<>>
               [] v.t = "object" -> TRUE
               [] OTHER -> FALSE

\* a || b
JsOr(a, b) == IF Truthy(a) THEN a ELSE b

\* String.prototype.replace(c, '') with a string pattern: the first occurrence only
RECURSIVE RemoveFirst(_, _)
RemoveFirst(cs, c) ==
    IF cs = <<>> THEN <<>>
    ELSE IF Head(cs) = c THEN Tail(cs)
    ELSE <<Head(cs)>> \o RemoveFirst(Tail(cs), c)

RECURSIVE SkipWhiteSpace(_)
SkipWhiteSpace(cs) ==
    IF cs # <<>> /\ Head(cs) \in WhiteSpace THEN SkipWhiteSpace(Tail(cs)) ELSE cs

RECURSIVE DigitPrefix(_)
DigitPrefix(cs) ==
    IF cs # <<>> /\ Head(cs) \in Digits
    THEN <<Head(cs)>> \o DigitPrefix(Tail(cs))
    ELSE <<>>

RECURSIVE DigitsValue(_, _)
DigitsValue(ds, acc) ==
    IF ds = <<>> THEN acc ELSE DigitsValue(Tail(ds), 10 * acc + DigitVal(Head(ds)))

\* parseInt(cs, 10): leading white space, an optional sign, the longest run
\* of decimal digits; NaN when there is no digit.
ParseInt(cs) ==
    LET body == SkipWhiteSpace(cs)
        signed == body # <<>> /\ Head(body) \in {"-", "+"}
        rest == IF signed THEN Tail(body) ELSE body
        ds == DigitPrefix(rest)
        mag == DigitsValue(ds, 0)
    IN  IF ds = <<>> THEN [nan |-> TRUE, n |-> 0]
        ELSE [nan |-> FALSE, n |-> IF signed /\ Head(body) = "-" THEN 0 - mag ELSE mag]

\* ToNumber, as the relational operators >= and < apply it to `code`
ToNumber(v) ==
    CASE v.t = "number" -> [nan |-> FALSE, n |-> v.n]
      [] v.t = "null" -> [nan |-> FALSE, n |-> 0]
      [] v.t = "string" ->
            \* StringToNumber for the strings of this model: the empty string is 0,
            \* an optionally signed run of digits is its value, anything else NaN
            LET signed == v.s # <<>> /\ Head(v.s) \in {"-", "+"}
                rest == IF signed THEN Tail(v.s) ELSE v.s
                mag == DigitsValue(rest, 0)
            IN  IF v.s = <<>> THEN [nan |-> FALSE, n |-> 0]
                ELSE IF rest # <<>> /\ DigitPrefix(rest) = rest
                     THEN [nan |-> FALSE, n |-> IF Head(v.s) = "-" THEN 0 - mag ELSE mag]
                ELSE [nan |-> TRUE, n |-> 0]
      [] OTHER -> [nan |-> TRUE, n |-> 0]

Min(a, b) == IF a <= b THEN a ELSE b

(***************************************************************************)
(* Provider failures: the value the provider's promise rejects with.       *)
(* nullish: the rejection value is undefined/null; otherwise an object     *)
(* with optional code, status and details.                                 *)
(***************************************************************************)
DUndef == [t |-> "undefined", items |-> <<>>]
DNull == [t |-> "null", items |-> <<>>]
\* a details value that is not an array (it has no find method)
DNotArray == [t |-> "object", items |-> <<>>]
DArray(items) == [t |-> "array", items |-> items]

\* an entry of details: null/undefined, or an object with '@type' and retryDelay
NullEntry == [nullish |-> TRUE, type |-> "", retryDelay |-> Undef]
Entry(type, rd) == [nullish |-> FALSE, type |-> type, retryDelay |-> rd]

Err(code, status, details) ==
    [nullish |-> FALSE, code |-> code, status |-> status, details |-> details]
NullishErr == [nullish |-> TRUE, code |-> Undef, status |-> Undef, details |-> DUndef]

\* The characters retryDelay strings are built from, and the strings themselves
Chars == {"0", "3", "s", "a", "-"}
RetryDelayStrings == UNION {[1..k -> Chars] : k \in 0..MaxStrLen}
\* every retryDelay value of the model: absent, null, a string, a number, an object
RetryDelayVals ==
    {Undef, Null, Obj, Num(0), Num(3)} \cup {Str(cs) : cs \in RetryDelayStrings}

DetailsVals ==
    {DUndef, DNull, DNotArray, DArray(<<>>), DArray(<<NullEntry>>),
     DArray(<<Entry(OtherType, Undef)>>),
     DArray(<<Entry(OtherType, Str(<<"3", "s">>))>>),
     DArray(<<NullEntry, Entry(RetryInfoType, Str(<<"3", "s">>))>>),
     DArray(<<Entry(RetryInfoType, Str(<<"3", "s">>)), NullEntry>>),
     DArray(<<Entry(RetryInfoType, Str(<<"3", "s">>)), Entry(RetryInfoType, Str(<<"0", "s">>))>>)}
    \cup {DArray(<<Entry(RetryInfoType, rd)>>) : rd \in RetryDelayVals}
    \cup {DArray(<<Entry(OtherType, Undef), Entry(RetryInfoType, rd)>>) :
              rd \in {Str(<<"3", "s">>), Str(<<"a">>), Num(3)}}

CodeVals ==
    {Undef, Num(0), Num(400), Num(429), Num(499), Num(500), Num(599), Num(600),
     Str(<<"5", "0", "3">>), Str(<<"4", "2", "9">>)}

Errors ==
    {NullishErr}
    \cup {Err(c, Undef, DUndef) : c \in CodeVals}
    \cup {Err(Undef, st, DUndef) : st \in CodeVals}
    \cup {Err(Num(0), st, DUndef) : st \in {Num(429), Num(500), Num(400)}}
    \cup {Err(Num(400), Num(500), DUndef), Err(Num(500), Num(400), DUndef),
          Err(Num(429), Num(500), DUndef), Err(Num(500), Num(429), DUndef)}
    \cup {Err(Num(429), Undef, d) : d \in DetailsVals}
    \cup {Err(Undef, Num(429), d) : d \in {DNotArray, DArray(<<Entry(RetryInfoType, Str(<<"3", "s">>))>>)}}

(***************************************************************************)
(* generateWithRetry: the classification of a caught failure.              *)
(***************************************************************************)
\* const code = error?.code || error?.status
CodeOf(e) == IF e.nullish THEN Undef ELSE JsOr(e.code, e.status)

\* code === 429
IsRateLimited(code) == code.t = "number" /\ code.n = 429

\* code >= 500 && code < 600
IsTransient(code) ==
    LET k == ToNumber(code) IN ~k.nan /\ k.n >= 500 /\ k.n < 600

\* faulty variant of NextDelay: the 60000 ms ceiling is forgotten
NextDelayUncapped(d) == d * 2

\* Math.min(delay * 2, 60000)
NextDelay(d) == Min(d * 2, MaxDelay)

(***************************************************************************)
(* extractRetryDelay.  The result is [throws, v]: throws when the body     *)
(* raises a TypeError, else v is null or a number.                         *)
(***************************************************************************)
\* error?.details?.find(d => d['@type'] === RetryInfo): [throws, found, entry]
RECURSIVE FindRetryInfo(_)
FindRetryInfo(items) ==
    IF items = <<>> THEN [throws |-> FALSE, found |-> FALSE, entry |-> NullEntry]
    ELSE IF Head(items).nullish THEN [throws |-> TRUE, found |-> FALSE, entry |-> NullEntry]
    ELSE IF Head(items).type = RetryInfoType
         THEN [throws |-> FALSE, found |-> TRUE, entry |-> Head(items)]
    ELSE FindRetryInfo(Tail(items))

\* parseInt(retryDelay.replace('s', ''), 10), then isNaN(seconds) ? null : seconds
ParseSeconds(cs) ==
    LET seconds == ParseInt(RemoveFirst(cs, "s"))
    IN  IF seconds.nan THEN Null ELSE Num(seconds.n)

extractRetryDelay(e) ==
    IF e.nullish \/ e.details.t \in {"undefined", "null"}
    THEN [throws |-> FALSE, v |-> Null]
    ELSE IF e.details.t # "array" THEN [throws |-> TRUE, v |-> Null]
    ELSE LET r == FindRetryInfo(e.details.items)
         IN  IF r.throws THEN [throws |-> TRUE, v |-> Null]
             ELSE IF r.found /\ Truthy(r.entry.retryDelay)
                  THEN IF r.entry.retryDelay.t = "string"
                       THEN [throws |-> FALSE, v |-> ParseSeconds(r.entry.retryDelay.s)]
                       ELSE [throws |-> TRUE, v |-> Null]
             ELSE [throws |-> FALSE, v |-> Null]

\* extractRetryDelay(error) || delay / 1000, in seconds
RetryDelaySeconds(e, d) == JsOr(extractRetryDelay(e).v, Num(d \div 1000)).n

(***************************************************************************)
(* Conversation turns and the arguments of runIteration.                   *)
(***************************************************************************)
TaskIds == {"t1", "t2"}
Models == {[name |-> "model-a"]}
Responses == {"r1", "r2"}

Turn(id, taskId, role, text) ==
    [id |-> id, taskId |-> taskId, summaryId |-> "null", role |-> role, text |-> text]
CallerTurns == {Turn("m1", "t1", "USER", "hello"), Turn("m2", "t1", "ASSISTANT", "hi")}
MessageLists == UNION {[1..k -> CallerTurns] : k \in 0..MaxTurns}

\* faulty variant of SummaryTurn: the synthetic turn is given the assistant's role
SummaryTurnAssistant(taskId) == Turn("", taskId, "ASSISTANT", SummaryRequestText)

\* the synthetic turn of runIteration (createdAt/updatedAt, the construction
\* time, are left out: nothing reads them)
SummaryTurn(taskId) == Turn("", taskId, "USER", SummaryRequestText)

\* faulty variant of SummaryMessages: the caller's turns are not spread in
SummaryMessagesOnlyRequest(taskId, messages) == <<SummaryTurn(taskId)>>

\* [...messages, {synthetic turn}]
SummaryMessages(taskId, messages) == Append(messages, SummaryTurn(taskId))

\* faulty variant of CallerMessagesAfterSummary: the turn is pushed onto the
\* caller's array
CallerMessagesPushed(taskId, messages) == Append(messages, SummaryTurn(taskId))

\* lines 102-118: the caller's array after summaryMessages is built (the
\* array literal is a new array and the spread only reads messages)
CallerMessagesAfterSummary(taskId, messages) == messages

(***************************************************************************)
(* Values an invocation can end with.                                      *)
(***************************************************************************)
NoThrow == [tag |-> "none", e |-> NullishErr, message |-> ""]
\* the provider's rejection value itself
ProviderThrow(e) == [tag |-> "provider", e |-> e, message |-> ""]
\* a TypeError raised by the runtime inside the catch block
TypeErrorThrow == [tag |-> "TypeError", e |-> NullishErr, message |-> ""]
\* new Error('Max retries reached for LLM call')
MaxRetriesThrow == [tag |-> "Error", e |-> NullishErr, message |-> MaxRetriesMessage]

Pending == [kind |-> "pending", resp |-> "", thrown |-> NoThrow]
Returned(r) == [kind |-> "returned", resp |-> r, thrown |-> NoThrow]
Threw(t) == [kind |-> "thrown", resp |-> "", thrown |-> t]

NoCaught == [some |-> FALSE, e |-> NullishErr]
Caught(e) == [some |-> TRUE, e |-> e]
NoArgs == [taskId |-> "", messages |-> <<>>, model |-> [name |-> ""], shouldSummarize |-> FALSE]
NoCallArgs ==
    [systemPrompt |-> "", messages |-> <<>>, modelName |-> "", isAgent |-> FALSE,
     signal |-> 0, maxRetries |-> 0]

VARIABLES
    pc,            \* per iteration: idle, calling (provider call in flight), sleeping, done, failed, unused
    stage,         \* per iteration: none, direct, primary, summary
    proc,          \* per iteration: the AgentProcessor instance (`this`) it runs on
    aborted,       \* per AgentProcessor: abortController.signal.aborted
    args,          \* per iteration: the arguments of runIteration
    callArgs,      \* per iteration: the arguments of the current generateWithRetry
    attempt,       \* per iteration: generateWithRetry's loop counter
    delay,         \* per iteration: generateWithRetry's delay, in ms
    sleepMs,       \* per iteration: the argument of the pending sleep
    caught,        \* per iteration: the failure whose catch block is suspended in sleep
    agentResponse, \* per iteration: runIteration's agentResponse
    result,        \* per iteration: how the invocation ended
    calls,         \* per iteration: provider calls made by the current generateWithRetry
    waits,         \* per iteration: sleeps started by the current generateWithRetry
    execCalls,     \* per iteration: generateWithRetry invocations made
    totalCalls,    \* per iteration: provider calls made by the whole invocation
    lastResp       \* per iteration: the response of the latest successful provider call

vars ==
    <<pc, stage, proc, aborted, args, callArgs, attempt, delay, sleepMs, caught,
      agentResponse, result, calls, waits, execCalls, totalCalls, lastResp>>

InitCommon ==
    /\ stage = [i \in Iters |-> "none"]
    /\ aborted = [p \in Procs |-> FALSE]
    /\ args = [i \in Iters |-> NoArgs]
    /\ callArgs = [i \in Iters |-> NoCallArgs]
    /\ attempt = [i \in Iters |-> 0]
    /\ delay = [i \in Iters |-> 0]
    /\ sleepMs = [i \in Iters |-> 0]
    /\ caught = [i \in Iters |-> NoCaught]
    /\ agentResponse = [i \in Iters |-> ""]
    /\ result = [i \in Iters |-> Pending]
    /\ calls = [i \in Iters |-> 0]
    /\ waits = [i \in Iters |-> 0]
    /\ execCalls = [i \in Iters |-> 0]
    /\ totalCalls = [i \in Iters |-> 0]
    /\ lastResp = [i \in Iters |-> ""]

\* one invocation, on processor 1
Init ==
    /\ pc = [i \in Iters |-> IF i = 1 THEN "idle" ELSE "unused"]
    /\ proc = [i \in Iters |-> 1]
    /\ InitCommon

\* concurrent invocations of runIteration, on the same processor or on different ones
\* (iteration 1 on processor 1: the processors are interchangeable)
InitConc ==
    /\ pc = [i \in Iters |-> "idle"]
    /\ proc \in {f \in [Iters -> Procs] : f[1] = 1}
    /\ InitCommon

\* faulty variant of LoopContinues: attempt < maxRetries
LoopContinuesOffByOne(a, maxRetries) == a < maxRetries

\* attempt <= maxRetries
LoopContinues(a, maxRetries) == a <= maxRetries

\* faulty variant of NextAttempt: the counter is advanced twice per failure
NextAttemptSkipping(a) == a + 2

\* attempt++
NextAttempt(a) == a + 1

(***************************************************************************)
(* generateWithRetry, lines 25-28: let delay = 5000, attempt = 1, the loop *)
(* test and the first provider call.                                       *)
(***************************************************************************)
BeginCall(i, systemPrompt, messages, modelName, isAgent, signal, maxRetries) ==
    /\ callArgs' = [callArgs EXCEPT ![i] =
           [systemPrompt |-> systemPrompt, messages |-> messages, modelName |-> modelName,
            isAgent |-> isAgent, signal |-> signal, maxRetries |-> maxRetries]]
    /\ delay' = [delay EXCEPT ![i] = InitialDelay]
    /\ attempt' = [attempt EXCEPT ![i] = 1]
    /\ execCalls' = [execCalls EXCEPT ![i] = @ + 1]
    /\ waits' = [waits EXCEPT ![i] = 0]
    /\ sleepMs' = [sleepMs EXCEPT ![i] = 0]
    /\ caught' = [caught EXCEPT ![i] = NoCaught]
    /\ IF LoopContinues(1, maxRetries)
       THEN /\ pc' = [pc EXCEPT ![i] = "calling"]
            /\ calls' = [calls EXCEPT ![i] = 1]
            /\ totalCalls' = [totalCalls EXCEPT ![i] = @ + 1]
            /\ result' = result
       ELSE /\ pc' = [pc EXCEPT ![i] = "failed"]
            /\ calls' = [calls EXCEPT ![i] = 0]
            /\ totalCalls' = totalCalls
            /\ result' = [result EXCEPT ![i] = Threw(MaxRetriesThrow)]

\* line 95: this.abortController.signal, the token of the processor the
\* iteration runs on, handed to the primary call
PrimarySignal(p) == p

\* faulty variant of SummarySignal: the summarization is handed another token
SummarySignalOther(p) == CHOOSE q \in Procs : q # p

\* line 125: this.abortController.signal, read again for the summarization call
SummarySignal(p) == p

\* runIteration is called
StartIteration(i, taskId, messages, model, shouldSummarize) ==
    /\ pc[i] = "idle"
    /\ args' = [args EXCEPT ![i] =
           [taskId |-> taskId, messages |-> messages, model |-> model,
            shouldSummarize |-> shouldSummarize]]
    /\ stage' = [stage EXCEPT ![i] = "primary"]
    /\ BeginCall(i, AGENT_SYSTEM_PROMPT, messages, model.name, TRUE, PrimarySignal(proc[i]),
                 DefaultMaxRetries)
    /\ UNCHANGED <<proc, aborted, agentResponse, lastResp>>

\* generateWithRetry is called for itself, with an explicit maxRetries
StartDirect(i, messages, isAgent, maxRetries) ==
    /\ pc[i] = "idle"
    /\ stage' = [stage EXCEPT ![i] = "direct"]
    /\ BeginCall(i, AGENT_SYSTEM_PROMPT, messages, "model-a", isAgent, proc[i], maxRetries)
    /\ UNCHANGED <<proc, aborted, args, agentResponse, lastResp>>

(***************************************************************************)
(* runIteration, lines 90-131: what follows the end of a generateWithRetry *)
(* invocation.                                                             *)
(***************************************************************************)
\* faulty variant of StartsSummary: a failed primary call is swallowed
StartsSummaryAlways(primaryReturned, shouldSummarize) == shouldSummarize

\* lines 90 and 101: the summarization starts when the awaited primary call
\* returned (a rejection propagates out of runIteration) and shouldSummarize
StartsSummary(primaryReturned, shouldSummarize) == primaryReturned /\ shouldSummarize

\* generateWithRetry ends with outcome (a return or a throw), its locals being
\* a (attempt) and d (delay) and the failure in its catch block c
EndCall(i, outcome, c, a, d) ==
    IF stage[i] = "primary" /\ StartsSummary(outcome.kind = "returned", args[i].shouldSummarize)
    THEN /\ agentResponse' = [agentResponse EXCEPT ![i] = outcome.resp]
         /\ stage' = [stage EXCEPT ![i] = "summary"]
         /\ args' = [args EXCEPT ![i].messages =
                CallerMessagesAfterSummary(args[i].taskId, args[i].messages)]
         /\ BeginCall(i, SUMMARIZATION_SYSTEM_PROMPT,
                      SummaryMessages(args[i].taskId, args[i].messages),
                      args[i].model.name, FALSE, SummarySignal(proc[i]), DefaultMaxRetries)
    ELSE /\ pc' = [pc EXCEPT ![i] = IF outcome.kind = "returned" THEN "done" ELSE "failed"]
         \* runIteration returns nothing; generateWithRetry returns the response
         /\ result' = [result EXCEPT ![i] =
                IF outcome.kind = "returned" /\ stage[i] # "direct" THEN Returned("")
                ELSE outcome]
         /\ agentResponse' = [agentResponse EXCEPT ![i] =
                IF outcome.kind = "returned" /\ stage[i] = "primary" THEN outcome.resp ELSE @]
         /\ attempt' = [attempt EXCEPT ![i] = a]
         /\ delay' = [delay EXCEPT ![i] = d]
         /\ caught' = [caught EXCEPT ![i] = c]
         /\ sleepMs' = [sleepMs EXCEPT ![i] = 0]
         /\ UNCHANGED <<stage, args, callArgs, execCalls, waits, calls, totalCalls>>

(***************************************************************************)
(* The provider call of line 28 resolves with response r: generateWithRetry*)
(* returns it.                                                             *)
(***************************************************************************)
ProviderSucceed(i, r) ==
    /\ pc[i] = "calling"
    /\ lastResp' = [lastResp EXCEPT ![i] = r]
    /\ EndCall(i, Returned(r), NoCaught, attempt[i], delay[i])
    /\ UNCHANGED <<proc, aborted>>

(***************************************************************************)
(* The catch block of generateWithRetry, lines 35-62, up to its await or   *)
(* throw: [do, ms, thrown] is "sleep" for ms milliseconds, or "throw".     *)
(***************************************************************************)
\* lines 60-61: the template literal reads error.message, a TypeError when
\* error is undefined or null; otherwise the caught value is rethrown
FatalThrow(e) == IF e.nullish THEN TypeErrorThrow ELSE ProviderThrow(e)

\* line 44: this.sleep(retryDelay * 1000)
RateLimitSleepMs(e, d) == RetryDelaySeconds(e, d) * 1000

\* line 54: this.sleep(delay)
TransientSleepMs(d) == d

HandleFailure(e, d) ==
    LET code == CodeOf(e)
    IN  IF IsRateLimited(code)
        THEN IF extractRetryDelay(e).throws
             THEN [do |-> "throw", ms |-> 0, thrown |-> TypeErrorThrow]
             ELSE [do |-> "sleep", ms |-> RateLimitSleepMs(e, d), thrown |-> NoThrow]
        ELSE IF IsTransient(code)
             THEN [do |-> "sleep", ms |-> TransientSleepMs(d), thrown |-> NoThrow]
        ELSE [do |-> "throw", ms |-> 0, thrown |-> FatalThrow(e)]

\* The provider call of line 28 rejects with e.
ProviderFail(i, e) ==
    /\ pc[i] = "calling"
    /\ LET h == HandleFailure(e, delay[i])
       IN  IF h.do = "sleep"
           THEN /\ pc' = [pc EXCEPT ![i] = "sleeping"]
                /\ sleepMs' = [sleepMs EXCEPT ![i] = h.ms]
                /\ waits' = [waits EXCEPT ![i] = @ + 1]
                /\ caught' = [caught EXCEPT ![i] = Caught(e)]
                /\ UNCHANGED <<stage, args, callArgs, attempt, delay, agentResponse, result,
                               calls, execCalls, totalCalls>>
           ELSE EndCall(i, Threw(h.thrown), Caught(e), attempt[i], delay[i])
    /\ UNCHANGED <<proc, aborted, lastResp>>

(***************************************************************************)
(* The timer of sleep (line 80) fires: lines 45-46 or 55-56, the loop's    *)
(* attempt++ and test, then the next provider call or line 65.             *)
(***************************************************************************)
\* faulty variant of DelayAfterRateLimit: the delay is left as it was
DelayAfterRateLimitKept(d) == d

\* line 45: delay = Math.min(delay * 2, 60000), after the wait of a 429
DelayAfterRateLimit(d) == NextDelay(d)

\* line 55: delay = Math.min(delay * 2, 60000), after the wait of a 5xx
DelayAfterTransient(d) == NextDelay(d)

\* the statement that follows the sleep of the catch block failure e suspended in
DelayAfterWait(e, d) ==
    IF IsRateLimited(CodeOf(e)) THEN DelayAfterRateLimit(d) ELSE DelayAfterTransient(d)

WakeUp(i) ==
    /\ pc[i] = "sleeping"
    /\ IF LoopContinues(NextAttempt(attempt[i]), callArgs[i].maxRetries)
       THEN /\ pc' = [pc EXCEPT ![i] = "calling"]
            /\ delay' = [delay EXCEPT ![i] = DelayAfterWait(caught[i].e, delay[i])]
            /\ attempt' = [attempt EXCEPT ![i] = NextAttempt(attempt[i])]
            /\ sleepMs' = [sleepMs EXCEPT ![i] = 0]
            /\ caught' = [caught EXCEPT ![i] = NoCaught]
            /\ calls' = [calls EXCEPT ![i] = @ + 1]
            /\ totalCalls' = [totalCalls EXCEPT ![i] = @ + 1]
            /\ UNCHANGED <<stage, args, callArgs, agentResponse, result, waits, execCalls>>
       ELSE EndCall(i, Threw(MaxRetriesThrow), NoCaught, NextAttempt(attempt[i]),
                    DelayAfterWait(caught[i].e, delay[i]))
    /\ UNCHANGED <<proc, aborted, lastResp>>

\* abort() on the AbortController of processor p (a second abort changes nothing)
Abort(p) ==
    /\ ~aborted[p]
    /\ aborted' = [aborted EXCEPT ![p] = TRUE]
    /\ UNCHANGED <<pc, stage, proc, args, callArgs, attempt, delay, sleepMs, caught,
                   agentResponse, result, calls, waits, execCalls, totalCalls, lastResp>>

RunIteration(i) ==
    \E taskId \in TaskIds, messages \in MessageLists, model \in Models,
       shouldSummarize \in BOOLEAN :
        StartIteration(i, taskId, messages, model, shouldSummarize)

GenerateWithRetry(i) ==
    \E messages \in MessageLists, isAgent \in BOOLEAN, maxRetries \in 1..MaxRetriesArg :
        StartDirect(i, messages, isAgent, maxRetries)

Resolve(i) == \E r \in Responses : ProviderSucceed(i, r)

Reject(i) == \E e \in Errors : ProviderFail(i, e)

Cancel == \E p \in Procs : Abort(p)

\* generateWithRetry alone, for every maxRetries and every failure shape
Next ==
    \/ \E i \in Iters : GenerateWithRetry(i)
    \/ \E i \in Iters : Resolve(i)
    \/ \E i \in Iters : Reject(i)
    \/ \E i \in Iters : WakeUp(i)

Spec == Init /\ [][Next]_vars

(***************************************************************************)
(* One runIteration, with one failure of each kind, and the cancellation   *)
(* of its processor's token.                                               *)
(***************************************************************************)
IterErrors ==
    {NullishErr,
     Err(Num(500), Undef, DUndef), Err(Num(400), Undef, DUndef), Err(Undef, Undef, DUndef),
     Err(Num(429), Undef, DUndef),
     Err(Num(429), Undef, DArray(<<Entry(RetryInfoType, Str(<<"3", "s">>))>>)),
     Err(Num(429), Undef, DArray(<<Entry(RetryInfoType, Str(<<"0", "s">>))>>)),
     Err(Num(429), Undef, DArray(<<Entry(RetryInfoType, Obj)>>))}

RejectIter(i) == \E e \in IterErrors : ProviderFail(i, e)

CancelOwn == Abort(proc[1])

NextIter ==
    \/ \E i \in Iters : RunIteration(i)
    \/ \E i \in Iters : Resolve(i)
    \/ \E i \in Iters : RejectIter(i)
    \/ \E i \in Iters : WakeUp(i)
    \/ CancelOwn

SpecIter == Init /\ [][NextIter]_vars

(***************************************************************************)
(* Concurrent iterations and cancellation, with a small set of inputs.     *)
(***************************************************************************)
ConcErrors ==
    {Err(Num(500), Undef, DUndef), Err(Num(401), Undef, DUndef)}

\* (only iteration 1 may summarize, to keep the product of the iterations small)
RunIterationConc(i) ==
    \E shouldSummarize \in (IF i = 1 THEN BOOLEAN ELSE {FALSE}) :
        StartIteration(i, "t1", <<>>, [name |-> "model-a"], shouldSummarize)

ResolveConc(i) == ProviderSucceed(i, "r1")

RejectConc(i) == \E e \in ConcErrors : ProviderFail(i, e)

NextConc ==
    \/ \E i \in Iters : RunIterationConc(i)
    \/ \E i \in Iters : ResolveConc(i)
    \/ \E i \in Iters : RejectConc(i)
    \/ \E i \in Iters : WakeUp(i)
    \/ Cancel

SpecConc == InitConc /\ [][NextConc]_vars

(***************************************************************************)
(* Progress: the awaited provider call of line 28 settles (it resolves or  *)
(* rejects) and the timer of line 80 fires. Nothing else is awaited, so    *)
(* both are weakly fair for every invocation.                              *)
(***************************************************************************)
ProviderCompletes(i) == Resolve(i) \/ RejectIter(i)

NextLive ==
    \/ \E i \in Iters : RunIteration(i)
    \/ \E i \in Iters : GenerateWithRetry(i)
    \/ \E i \in Iters : Resolve(i)
    \/ \E i \in Iters : RejectIter(i)
    \/ \E i \in Iters : WakeUp(i)
    \/ CancelOwn

SpecLive ==
    /\ Init
    /\ [][NextLive]_vars
    /\ \A i \in Iters : WF_vars(ProviderCompletes(i)) /\ WF_vars(WakeUp(i))

(***************************************************************************)
(* Classification of a failure, as the claims use it.                      *)
(***************************************************************************)
Retryable(e) == IsRateLimited(CodeOf(e)) \/ IsTransient(CodeOf(e))
Fatal(e) == ~Retryable(e)
Ended(i) == pc[i] \in {"done", "failed"}

(***************************************************************************)
(* C1: when attempts 1..N-1 of generateWithRetry fail with a retryable     *)
(* failure and attempt N (N <= maxRetries) succeeds, it returns exactly    *)
(* the response of attempt N, has made N provider calls and N-1 waits, and *)
(* makes no provider call after the success.                               *)
(***************************************************************************)
C1_SuccessAfterRetries ==
    /\ [](\A i \in Iters : (stage[i] = "direct" /\ pc[i] = "done") =>
              /\ result[i] = Returned(lastResp[i])
              /\ calls[i] = attempt[i]
              /\ attempt[i] <= callArgs[i].maxRetries
              /\ waits[i] = attempt[i] - 1)
    /\ [][\A i \in Iters : (stage[i] = "direct" /\ pc[i] = "done") =>
              /\ pc'[i] = "done"
              /\ calls'[i] = calls[i]
              /\ totalCalls'[i] = totalCalls[i]
              /\ waits'[i] = waits[i]
              /\ result'[i] = result[i]]_vars

\* the third attempt succeeded after two retryable failures
C1_Witness ==
    \E i \in Iters :
        /\ stage[i] = "direct" /\ pc[i] = "done"
        /\ attempt[i] = 3 /\ waits[i] = 2 /\ calls[i] = 3
        /\ result[i] = Returned("r2")

C3_FatalSurfacedUnmodified ==
    \A i \in Iters : (stage[i] = "direct" /\ caught[i].some /\ Fatal(caught[i].e)) =>
        /\ pc[i] = "failed"
        /\ result[i] = Threw(ProviderThrow(caught[i].e))
        /\ sleepMs[i] = 0
        /\ calls[i] = attempt[i]
        /\ waits[i] = attempt[i] - 1

RECURSIVE Pow2(_)
Pow2(k) == IF k <= 0 THEN 1 ELSE 2 * Pow2(k - 1)

Started(i) == pc[i] \in {"calling", "sleeping", "done", "failed"}

(***************************************************************************)
(* C4: within one generateWithRetry invocation the delay starts at 5000    *)
(* ms, never decreases, is doubled (up to the 60000 ms ceiling) after each *)
(* retryable failure, never exceeds 60000 ms, and goes back to 5000 ms     *)
(* only when a new invocation starts.                                      *)
(***************************************************************************)
C4_BackoffDelay ==
    /\ [](\A i \in Iters : Started(i) =>
              /\ delay[i] >= 5000 /\ delay[i] <= 60000
              /\ delay[i] = (IF 5000 * Pow2(attempt[i] - 1) <= 60000
                             THEN 5000 * Pow2(attempt[i] - 1) ELSE 60000))
    /\ [][\A i \in Iters :
              \* a new invocation starts at 5000 ms
              /\ execCalls'[i] # execCalls[i] =>
                     (execCalls'[i] = execCalls[i] + 1 /\ delay'[i] = 5000 /\ attempt'[i] = 1)
              /\ execCalls'[i] = execCalls[i] =>
                     \* the end of a wait doubles the delay, up to the ceiling
                     /\ (pc[i] = "sleeping" /\ pc'[i] # "sleeping") =>
                            delay'[i] = (IF 2 * delay[i] <= 60000 THEN 2 * delay[i] ELSE 60000)
                     \* and nothing else changes it
                     /\ ~(pc[i] = "sleeping" /\ pc'[i] # "sleeping") => delay'[i] = delay[i]
                     /\ delay'[i] >= delay[i]
                     /\ (Started(i) /\ delay[i] > 5000) => delay'[i] > 5000]_vars

\* the summarization call has reached the ceiling in its turn
C4_Witness ==
    \E i \in Iters :
        /\ stage[i] = "summary" /\ execCalls[i] = 2
        /\ pc[i] = "sleeping" /\ attempt[i] = 6 /\ delay[i] = 60000

(***************************************************************************)
(* The retry-delay field of a failure, as claim C5 reads it: the           *)
(* retryDelay of the first RetryInfo entry of details, absent without one. *)
(***************************************************************************)
RetryDelayField(e) ==
    IF ~e.nullish /\ e.details.t = "array" /\ FindRetryInfo(e.details.items).found
    THEN FindRetryInfo(e.details.items).entry.retryDelay
    ELSE Undef

\* an integer n >= 0 followed by 's'
WellFormedSeconds(v) ==
    /\ v.t = "string"
    /\ Len(v.s) >= 2
    /\ v.s[Len(v.s)] = "s"
    /\ \A k \in 1..(Len(v.s) - 1) : v.s[k] \in Digits

SecondsOf(v) == DigitsValue(SubSeq(v.s, 1, Len(v.s) - 1), 0)

\* a malformed value in the narrowest reading, like 'abc': a string without a digit
NonNumeric(v) == v.t = "string" /\ \A k \in 1..Len(v.s) : v.s[k] \notin Digits

(***************************************************************************)
(* C5: after a RateLimited failure the wait is n seconds for every         *)
(* well-formed retry-delay of n seconds (an integer n >= 0 followed by     *)
(* 's'), whatever the computed delay; with the field absent or malformed   *)
(* (read narrowly: a string without a digit, like 'abc') the wait is the   *)
(* computed delay / 1000 seconds.                                          *)
(***************************************************************************)
C5_RetryAfterHonoured ==
    \A i \in Iters :
        (pc[i] = "sleeping" /\ IsRateLimited(CodeOf(caught[i].e))) =>
            LET rd == RetryDelayField(caught[i].e)
            IN  /\ WellFormedSeconds(rd) => sleepMs[i] = SecondsOf(rd) * 1000
                /\ (rd = Undef \/ NonNumeric(rd)) => sleepMs[i] = delay[i]

\* the metadata shapes claim C9 lists: details absent, no RetryInfo entry,
\* retryDelay absent, a non-numeric string, or no string at all
ListedMetadata(e) ==
    \/ e.details.t = "undefined"
    \/ /\ e.details.t = "array"
       /\ \A k \in 1..Len(e.details.items) : ~e.details.items[k].nullish
       /\ LET rd == RetryDelayField(e)
          IN  \/ ~FindRetryInfo(e.details.items).found
              \/ rd = Undef
              \/ NonNumeric(rd)
              \/ rd.t # "string"

(***************************************************************************)
(* C9: retry-metadata extraction never produces an error: for a            *)
(* RateLimited failure whose metadata has one of the listed shapes the     *)
(* value is treated as absent, the computed default wait is used and the   *)
(* retry loop goes on, so that generateWithRetry does not end with an      *)
(* error that is neither a provider Fatal cause nor the exhaustion error.  *)
(***************************************************************************)
C9_ExtractionNeverFails ==
    \A i \in Iters :
        (stage[i] = "direct" /\ caught[i].some /\ IsRateLimited(CodeOf(caught[i].e))
            /\ ListedMetadata(caught[i].e)) =>
                /\ pc[i] = "sleeping"
                /\ sleepMs[i] = delay[i]
                /\ result[i].thrown.tag \in {"none", "provider", "Error"}

InIteration(i) == stage[i] \in {"primary", "summary"}

(***************************************************************************)
(* C6, as stated: runIteration with shouldSummarize = false invokes the    *)
(* provider exactly once; with shouldSummarize = true and a successful     *)
(* primary call it invokes the provider exactly twice, the second time     *)
(* with the caller's turns followed by the user-role summary-request turn. *)
(***************************************************************************)
C6_ProviderInvokedOnceOrTwice ==
    \A i \in Iters : (InIteration(i) /\ Ended(i)) =>
        /\ ~args[i].shouldSummarize => totalCalls[i] = 1
        /\ (args[i].shouldSummarize /\ stage[i] = "summary") =>
              /\ totalCalls[i] = 2
              /\ Len(callArgs[i].messages) = Len(args[i].messages) + 1
              /\ callArgs[i].messages[Len(callArgs[i].messages)].role = "USER"
              /\ callArgs[i].messages[Len(callArgs[i].messages)].text = SummaryRequestText

(***************************************************************************)
(* C6, amended: runIteration with shouldSummarize = false invokes          *)
(* generateWithRetry exactly once, and with shouldSummarize = true and a   *)
(* successful primary call exactly twice, the second time with a turn      *)
(* sequence whose length is the first call's input length + 1 and whose    *)
(* final entry is the user-role turn holding the summary-request text;     *)
(* each invocation makes at least one and at most 10 provider calls.       *)
(***************************************************************************)
C6_ExecutorInvokedOnceOrTwice ==
    \A i \in Iters : InIteration(i) =>
        /\ stage[i] = "primary" =>
              /\ execCalls[i] = 1
              /\ callArgs[i].messages = args[i].messages
              /\ totalCalls[i] >= 1 /\ totalCalls[i] <= 10
        /\ (Ended(i) /\ ~args[i].shouldSummarize) => stage[i] = "primary"
        \* the primary call returned and the summarization is asked for
        /\ (Ended(i) /\ args[i].shouldSummarize /\ agentResponse[i] \in Responses) =>
              stage[i] = "summary"
        /\ stage[i] = "summary" =>
              /\ execCalls[i] = 2
              /\ args[i].shouldSummarize
              /\ Len(callArgs[i].messages) = Len(args[i].messages) + 1
              /\ SubSeq(callArgs[i].messages, 1, Len(args[i].messages)) = args[i].messages
              /\ callArgs[i].messages[Len(callArgs[i].messages)].role = "USER"
              /\ callArgs[i].messages[Len(callArgs[i].messages)].text = SummaryRequestText
              /\ totalCalls[i] >= 2 /\ totalCalls[i] <= 20

\* a completed iteration that summarized one caller turn, with retries on the way
C6_Witness ==
    \E i \in Iters :
        /\ pc[i] = "done" /\ stage[i] = "summary" /\ execCalls[i] = 2
        /\ Len(args[i].messages) = 1 /\ Len(callArgs[i].messages) = 2
        /\ totalCalls[i] > 2

(***************************************************************************)
(* C7: within one runIteration the two calls are strictly sequential: the  *)
(* summarization call starts only at the successful end of the primary     *)
(* generateWithRetry, after all its attempts and waits, and never when the *)
(* primary call ended in an error.                                         *)
(***************************************************************************)
C7_SequentialCalls ==
    /\ [](\A i \in Iters :
              \* the summarization runs only after the primary call has returned
              /\ stage[i] = "summary" =>
                    (agentResponse[i] \in Responses /\ execCalls[i] = 2)
              \* a primary call that ended in an error is the only call made
              /\ (stage[i] = "primary" /\ pc[i] = "failed") =>
                    (execCalls[i] = 1 /\ totalCalls[i] = calls[i]))
    /\ [][\A i \in Iters :
              \* the step that starts the summarization is the primary call's
              \* provider call resolving: no attempt or wait of it is pending
              /\ (stage[i] = "primary" /\ stage'[i] = "summary") =>
                    /\ pc[i] = "calling" /\ pc'[i] = "calling"
                    /\ agentResponse'[i] = lastResp'[i]
                    /\ calls'[i] = 1 /\ totalCalls'[i] = totalCalls[i] + 1
              \* provider calls of the primary stage belong to the primary call
              /\ (stage'[i] = "primary" /\ totalCalls'[i] # totalCalls[i]) =>
                    callArgs'[i].systemPrompt = AGENT_SYSTEM_PROMPT
              \* an iteration that has ended starts nothing
              /\ Ended(i) =>
                    /\ pc'[i] = pc[i] /\ stage'[i] = stage[i]
                    /\ execCalls'[i] = execCalls[i] /\ totalCalls'[i] = totalCalls[i]]_vars

\* the summarization call is retrying, after a primary call that retried too
C7_Witness ==
    \E i \in Iters :
        /\ stage[i] = "summary" /\ pc[i] = "sleeping"
        /\ calls[i] = 2 /\ totalCalls[i] = 5

(***************************************************************************)
(* C8: every runIteration ends in exactly one of normal completion or an   *)
(* error equal to a provider Fatal cause or to the exhaustion error; it    *)
(* completes normally only if the primary call succeeded and the           *)
(* summarization, when asked for, succeeded.                               *)
(***************************************************************************)
C8_IterationOutcomes ==
    \A i \in Iters : (InIteration(i) /\ Ended(i)) =>
        /\ \/ pc[i] = "done" /\ result[i] = Returned("")
           \/ /\ pc[i] = "failed" /\ result[i].kind = "thrown"
              /\ \/ result[i].thrown = MaxRetriesThrow
                 \/ /\ result[i].thrown.tag = "provider"
                    /\ Fatal(result[i].thrown.e)
        /\ pc[i] = "done" =>
              /\ agentResponse[i] \in Responses
              /\ args[i].shouldSummarize => stage[i] = "summary"

(***************************************************************************)
(* C10: concurrent iterations are independent: each has its own            *)
(* cancellation token and retry state, so no step of one iteration, the    *)
(* cancellation of its token included, changes the token, attempt counter, *)
(* delay or outcome of another iteration in flight.                        *)
(***************************************************************************)
InFlight(i) == pc[i] \in {"calling", "sleeping"}
IterView(i) == <<aborted[callArgs[i].signal], attempt[i], delay[i], result[i]>>

C10_IterationsIndependent ==
    [][\A i, j \in Iters :
          (i # j /\ InFlight(i) /\ InFlight(j) /\ IterView(i)' # IterView(i)) =>
              IterView(j)' = IterView(j)]_vars

(***************************************************************************)
(* C11: within one runIteration the primary call, the summarization call   *)
(* and every retry attempt of each are given the same cancellation token;  *)
(* the token is either active or cancelled, a cancelled token stays        *)
(* cancelled, and every provider attempt started after the cancellation is *)
(* handed a token that reads cancelled.                                    *)
(***************************************************************************)
C11_SharedMonotonicToken ==
    /\ [](/\ aborted \in [Procs -> BOOLEAN]
          /\ \A i \in Iters : (InIteration(i) /\ Started(i)) => callArgs[i].signal \in Procs)
    /\ [][/\ \A p \in Procs : aborted[p] => aborted'[p]
          /\ \A i \in Iters :
                \* the token of the iteration is the same from the first attempt
                \* of the primary call to the last of the summarization call
                /\ (InIteration(i) /\ Started(i)) => callArgs'[i].signal = callArgs[i].signal
                \* an attempt started after the cancellation sees it
                /\ (InIteration(i) /\ Started(i) /\ aborted[callArgs[i].signal]
                      /\ totalCalls'[i] # totalCalls[i]) =>
                        aborted'[callArgs'[i].signal]]_vars

\* the summarization call retries with the token cancelled
C11_Witness ==
    \E i \in Iters :
        /\ stage[i] = "summary" /\ pc[i] = "calling" /\ calls[i] = 2
        /\ aborted[callArgs[i].signal]

(***************************************************************************)
(* C12: the computed delay advances on every retryable failure of either   *)
(* kind: at the k-th retryable failure of an invocation the computed delay *)
(* is min(5000 * 2^(k-1), 60000) ms (a Transient failure, and a            *)
(* RateLimited one without retry metadata, wait that long), and the wait   *)
(* of a RateLimited failure is followed by the doubling even when it       *)
(* lasted the provider's retry-after value. With maxRetries = 3 and the    *)
(* outcomes [retryable, retryable, success] the third attempt's response   *)
(* is returned after two waits.                                            *)
(***************************************************************************)
C12_DelayAdvancesOnEveryRetryable ==
    /\ [](\A i \in Iters :
              /\ pc[i] = "sleeping" =>
                    LET k == waits[i]
                        computed == IF 5000 * Pow2(k - 1) <= 60000
                                    THEN 5000 * Pow2(k - 1) ELSE 60000
                    IN  /\ k = attempt[i] /\ k = calls[i]
                        /\ Retryable(caught[i].e)
                        /\ delay[i] = computed
                        /\ IsTransient(CodeOf(caught[i].e)) => sleepMs[i] = computed
                        /\ (IsRateLimited(CodeOf(caught[i].e))
                              /\ RetryDelayField(caught[i].e) = Undef) => sleepMs[i] = computed
              /\ (pc[i] = "done" /\ callArgs[i].maxRetries = 3 /\ attempt[i] = 3) =>
                    /\ waits[i] = 2 /\ calls[i] = 3 /\ delay[i] = 20000
                    /\ result[i] = Returned(lastResp[i]))
    /\ [][\A i \in Iters :
              \* the end of a wait, whatever its kind and its length
              (pc[i] = "sleeping" /\ pc'[i] # "sleeping") =>
                  /\ delay'[i] = (IF 2 * delay[i] <= 60000 THEN 2 * delay[i] ELSE 60000)
                  /\ attempt'[i] = attempt[i] + 1]_vars

\* the second retryable failure is a 429 whose wait is the provider's 3 s,
\* with the delay doubled by the first
C12_Witness ==
    \E i \in Iters :
        /\ pc[i] = "sleeping" /\ waits[i] = 2
        /\ IsRateLimited(CodeOf(caught[i].e))
        /\ sleepMs[i] = 3000 /\ delay[i] = 10000
        /\ callArgs[i].maxRetries = 3

(***************************************************************************)
(* C13: within one generateWithRetry invocation attempts never overlap (a  *)
(* provider call is started only when every earlier one has failed and its *)
(* wait is over, and none is in flight during a wait), and the executor    *)
(* sleeps only between attempts: a wait is started only when a further     *)
(* provider attempt is permitted, and its end starts that attempt.         *)
(***************************************************************************)
C13_SleepsOnlyBetweenAttempts ==
    \A i \in Iters :
        /\ pc[i] = "calling" => (calls[i] = attempt[i] /\ waits[i] = calls[i] - 1)
        /\ pc[i] = "sleeping" =>
              /\ calls[i] = attempt[i] /\ waits[i] = calls[i]
              \* the failed attempt was not the last permitted one
              /\ attempt[i] < callArgs[i].maxRetries

(***************************************************************************)
(* The classification as claim C14 words it, for a failure whose code and  *)
(* status are numbers or absent: c is the code if truthy, else the status. *)
(***************************************************************************)
ClaimCode(e) ==
    IF e.nullish THEN Undef ELSE IF Truthy(e.code) THEN e.code ELSE e.status
NumericOrAbsent(e) ==
    e.nullish \/ (e.code.t \in {"number", "undefined"} /\ e.status.t \in {"number", "undefined"})
ClaimRateLimited(e) == ClaimCode(e).t = "number" /\ ClaimCode(e).n = 429
ClaimTransient(e) ==
    ClaimCode(e).t = "number" /\ 500 <= ClaimCode(e).n /\ ClaimCode(e).n < 600
ClaimFatal(e) == ~ClaimRateLimited(e) /\ ~ClaimTransient(e)

(***************************************************************************)
(* C14: every provider failure receives exactly one classification, which  *)
(* alone decides whether to retry: RateLimited iff c = 429, Transient iff  *)
(* 500 <= c < 600, Fatal otherwise (no code and no status included);       *)
(* RateLimited and Transient failures always lead to a wait, a Fatal one   *)
(* never does and ends the invocation.                                     *)
(***************************************************************************)
C14_ClassificationDecidesRetry ==
    \A i \in Iters : (caught[i].some /\ NumericOrAbsent(caught[i].e)) =>
        LET e == caught[i].e
        IN  /\ IsRateLimited(CodeOf(e)) <=> ClaimRateLimited(e)
            /\ IsTransient(CodeOf(e)) <=> ClaimTransient(e)
            /\ ~(IsRateLimited(CodeOf(e)) /\ IsTransient(CodeOf(e)))
            /\ (ClaimRateLimited(e) \/ ClaimTransient(e)) =>
                  (pc[i] = "sleeping" /\ waits[i] = attempt[i])
            /\ ClaimFatal(e) =>
                  (pc[i] = "failed" /\ sleepMs[i] = 0 /\ waits[i] = attempt[i] - 1)

(***************************************************************************)
(* With every provider call and every timed wait completing, every         *)
(* generateWithRetry invocation and every runIteration ends, after at most *)
(* maxRetries provider calls of each invocation; the attempt counter       *)
(* starts at 1, is only ever increased, by one and at the end of the wait  *)
(* of a retryable failure, and no provider call is made with               *)
(* attempt > maxRetries.                                                   *)
(***************************************************************************)
TerminatesWithBoundedAttempts ==
    /\ \A i \in Iters : [](InFlight(i) => <>Ended(i))
    /\ \A i \in Iters : \A n \in 1..2 :
           []((InFlight(i) /\ execCalls[i] = n) => <>(Ended(i) \/ execCalls[i] > n))
    /\ [](\A i \in Iters : Started(i) =>
              /\ attempt[i] >= 1
              /\ calls[i] <= callArgs[i].maxRetries
              /\ pc[i] \in {"calling", "sleeping"} =>
                    (attempt[i] <= callArgs[i].maxRetries /\ calls[i] = attempt[i]))
    /\ [][\A i \in Iters : Started(i) =>
              \/ attempt'[i] = attempt[i]
              \/ /\ attempt'[i] = attempt[i] + 1
                 /\ pc[i] = "sleeping" /\ Retryable(caught[i].e)
              \* the summarization starts its own counter
              \/ attempt'[i] = 1 /\ execCalls'[i] = execCalls[i] + 1]_vars

(***************************************************************************)
(* C15: assuming every provider call and every timed wait eventually       *)
(* completes, every generateWithRetry invocation eventually terminates, in *)
(* one of success, Fatal cause or exhaustion error, after at most          *)
(* maxRetries provider calls, and so every runIteration terminates; the    *)
(* attempt counter starts at 1, only increases (by one per retryable       *)
(* failure) and no provider call is made with attempt > maxRetries.        *)
(***************************************************************************)
C15_TerminatesInListedOutcome ==
    /\ TerminatesWithBoundedAttempts
    /\ [](\A i \in Iters : Ended(i) =>
              \/ pc[i] = "done" /\ result[i].kind = "returned"
              \/ /\ pc[i] = "failed"
                 /\ \/ result[i] = Threw(MaxRetriesThrow)
                    \/ /\ result[i].thrown.tag = "provider"
                       /\ result[i].thrown.e = caught[i].e
                       /\ Fatal(result[i].thrown.e))

\* a turn that holds the summary request
IsSynthetic(t) == t.id = "" /\ t.text = SummaryRequestText

(***************************************************************************)
(* C16: runIteration leaves the caller's turn sequence unchanged: every    *)
(* attempt of the primary call is given exactly the caller's turns, every  *)
(* attempt of the summarization call the caller's turns followed by one    *)
(* synthetic turn (role user, the caller's taskId, null summary id), and   *)
(* with shouldSummarize false there is no synthetic turn and no second     *)
(* call.                                                                   *)
(***************************************************************************)
C16_CallerTurnsUnchanged ==
    /\ [](\A i \in Iters : (InIteration(i) /\ Started(i)) =>
              LET given == callArgs[i].messages
                  n == Len(args[i].messages)
              IN  /\ stage[i] = "primary" =>
                        /\ given = args[i].messages
                        /\ \A k \in 1..Len(given) : ~IsSynthetic(given[k])
                  /\ stage[i] = "summary" =>
                        /\ args[i].shouldSummarize
                        /\ Len(given) = n + 1
                        /\ \A k \in 1..n : given[k] = args[i].messages[k]
                        /\ given[n + 1].role = "USER"
                        /\ given[n + 1].taskId = args[i].taskId
                        /\ given[n + 1].summaryId = "null"
                        /\ IsSynthetic(given[n + 1])
                  /\ ~args[i].shouldSummarize => (stage[i] = "primary" /\ execCalls[i] = 1))
    /\ [][\A i \in Iters : (InIteration(i) /\ Started(i)) =>
              \* the caller's turns stay what they were
              /\ args'[i].messages = args[i].messages
              \* and the turns of a call are those of all its attempts
              /\ execCalls'[i] = execCalls[i] => callArgs'[i].messages = callArgs[i].messages]_vars

\* the summarization of one caller turn of task t2 retries
C16_Witness ==
    \E i \in Iters :
        /\ stage[i] = "summary" /\ pc[i] = "calling" /\ calls[i] = 2
        /\ args[i].taskId = "t2" /\ Len(args[i].messages) = 1
        /\ Len(callArgs[i].messages) = 2

(***************************************************************************)
(* C17: the two calls of one runIteration have independent retry state and *)
(* budgets: the summarization call starts at attempt 1 with delay 5000 ms  *)
(* and a ceiling of 10 attempts, however many retries the primary call     *)
(* used; one runIteration makes at most 10 provider calls when             *)
(* shouldSummarize is false and at most 20 when it is true.                *)
(***************************************************************************)
C17_IndependentRetryBudgets ==
    /\ [](\A i \in Iters : (InIteration(i) /\ Started(i)) =>
              /\ callArgs[i].maxRetries = 10
              /\ calls[i] <= 10
              /\ ~args[i].shouldSummarize => totalCalls[i] <= 10
              /\ args[i].shouldSummarize => totalCalls[i] <= 20
              \* the summarization's budget is not reduced by the primary call's
              /\ (stage[i] = "summary" /\ pc[i] = "calling") =>
                    (attempt[i] = calls[i] /\ attempt[i] <= 10)
              /\ (stage[i] = "summary" /\ result[i] = Threw(MaxRetriesThrow)) =>
                    calls[i] = 10)
    /\ [][\A i \in Iters : (stage[i] = "primary" /\ stage'[i] = "summary") =>
              /\ attempt[i] \in 1..10
              /\ attempt'[i] = 1 /\ delay'[i] = 5000 /\ callArgs'[i].maxRetries = 10
              /\ calls'[i] = 1 /\ waits'[i] = 0]_vars

\* both calls have used their ten attempts
C17_Witness ==
    \E i \in Iters :
        /\ stage[i] = "summary" /\ pc[i] = "failed"
        /\ calls[i] = 10 /\ totalCalls[i] = 20
        /\ result[i] = Threw(MaxRetriesThrow)

\* what the executor holds of iteration i
ExecView(i) ==
    <<pc[i], stage[i], attempt[i], delay[i], sleepMs[i], calls[i], waits[i], totalCalls[i],
      result[i]>>
Cancelled(i) == InFlight(i) /\ aborted[callArgs[i].signal]

(***************************************************************************)
(* C18: the executor never reads the cancellation token: a cancellation    *)
(* changes nothing of a running invocation, a wait in particular goes on   *)
(* with the same length; the end of a wait of a cancelled invocation       *)
(* starts the next provider attempt when one is permitted; and a cancelled *)
(* invocation's loop stops only through a success of the provider, a Fatal *)
(* failure, or the exhaustion of the attempts.                             *)
(***************************************************************************)
C18_ExecutorIgnoresToken ==
    [][\A i \in Iters :
          /\ aborted' # aborted => ExecView(i)' = ExecView(i)
          /\ (Cancelled(i) /\ pc[i] = "sleeping" /\ pc'[i] # "sleeping"
                /\ attempt[i] < callArgs[i].maxRetries) =>
                  /\ pc'[i] = "calling"
                  /\ totalCalls'[i] = totalCalls[i] + 1
          /\ (Cancelled(i) /\ (Ended(i)' \/ execCalls'[i] # execCalls[i])) =>
                  \* a success
                  \/ pc[i] = "calling" /\ lastResp'[i] \in Responses
                       /\ (result'[i].kind = "returned" \/ stage'[i] = "summary")
                  \* a Fatal failure
                  \/ pc[i] = "calling" /\ caught'[i].some /\ Fatal(caught'[i].e)
                  \* the exhaustion of the attempts
                  \/ pc[i] = "sleeping" /\ attempt[i] = callArgs[i].maxRetries
                       /\ result'[i] = Threw(MaxRetriesThrow)]_vars
====
